---- MODULE Spec2Model ----
(***************************************************************************)
(* A model of BusinessFlowAI (src/app.py): the workflow registry and the   *)
(* SQLite tables it writes, execute_automation with the condition          *)
(* evaluator and the action dispatcher it calls, the execution log, the    *)
(* per-workflow analytics and the pattern detector.                        *)
(*                                                                         *)
(* Python strings are sequences of one-character strings, so that          *)
(* str.replace, str() and the text eval() reads are computed and not       *)
(* assumed.                                                                *)
(***************************************************************************)
EXTENDS Integers, Sequences, FiniteSets, TLC

VARIABLES
    now,            \* the wall clock, in ticks
    workflows,      \* self.workflows: id -> Workflow
    wf_table,       \* the rows of table workflows, by primary key
    execution_log,  \* the rows of table execution_log, in rowid order
    ret,            \* the last call on the BusinessFlowAI object and its outcome
    cond_io,        \* a call of evaluate_condition: its arguments and its result
    detect_io       \* a call of detect_workflow_patterns: its argument and its result

vars == <<now, workflows, wf_table, execution_log, ret, cond_io, detect_io>>

(***************************************************************************)
(* Strings.                                                                *)
(***************************************************************************)
DigitChars == <<"0", "1", "2", "3", "4", "5", "6", "7", "8", "9">>

IsDigit(c) == \E i \in 1..10 : DigitChars[i] = c

DigitVal(c) == (CHOOSE i \in 1..10 : DigitChars[i] = c) - 1

\* The letters the modelled inputs are written with.  Of the words over
\* them, "and" and "or" are keywords and "ord" is a builtin; no other is
\* bound where eval() runs (the locals self, condition, context, key, value
\* and the globals of app.py).
Letters == {"a", "b", "c", "d", "n", "o", "r", "x", "y"}

IsLetter(c) == c \in Letters

RECURSIVE NatToStr(_)
NatToStr(n) ==
    IF n < 10 THEN <<DigitChars[n + 1]>>
    ELSE NatToStr(n \div 10) \o <<DigitChars[(n % 10) + 1]>>

\* str(n) of an int
IntToStr(n) == IF n < 0 THEN <<"-">> \o NatToStr(0 - n) ELSE NatToStr(n)

\* A context value: an int or a str.
IntVal(n) == [k |-> "int", n |-> n, s |-> <<>>]
StrVal(s) == [k |-> "str", n |-> 0, s |-> s]

\* str(value)
PyStr(value) == IF value.k = "int" THEN IntToStr(value.n) ELSE value.s

\* s.replace(old, new), old not empty: every occurrence, left to right,
\* none overlapping
RECURSIVE Replace(_, _, _)
Replace(s, old, new) ==
    IF Len(s) < Len(old) THEN s
    ELSE IF SubSeq(s, 1, Len(old)) = old
         THEN new \o Replace(SubSeq(s, Len(old) + 1, Len(s)), old, new)
         ELSE <<Head(s)>> \o Replace(Tail(s), old, new)

\* The loop of evaluate_condition over context.items(), a dict being the
\* sequence of its <<key, value>> pairs in insertion order.
RECURSIVE Substitute(_, _)
Substitute(condition, context) ==
    IF context = <<>> THEN condition
    ELSE Substitute(Replace(condition,
                            <<"{">> \o Head(context)[1] \o <<"}">>,
                            PyStr(Head(context)[2])),
                    Tail(context))

(***************************************************************************)
(* eval(): the Python expressions that can be written with digits, the     *)
(* letters above, blanks, braces, + and -, and the comparison signs:       *)
(* or / and over chained comparisons over sums of signed atoms, an atom    *)
(* being an integer literal, a name, {} or a set display {e}.              *)
(***************************************************************************)
Token(t, n, s) == [t |-> t, n |-> n, s |-> s]

TwoCharOps == {<<"=", "=">>, <<"!", "=">>, <<">", "=">>, <<"<", "=">>}

OneCharOps == {">", "<", "+", "-", "{", "}"}

Keywords == {<<"a", "n", "d">>, <<"o", "r">>}

RECURSIVE DigitRun(_)
DigitRun(s) ==
    IF s # <<>> /\ IsDigit(Head(s)) THEN 1 + DigitRun(Tail(s)) ELSE 0

RECURSIVE WordRun(_)
WordRun(s) ==
    IF s # <<>> /\ (IsLetter(Head(s)) \/ IsDigit(Head(s)))
    THEN 1 + WordRun(Tail(s)) ELSE 0

RECURSIVE DigitsVal(_)
DigitsVal(ds) ==
    IF ds = <<>> THEN 0
    ELSE 10 * DigitsVal(SubSeq(ds, 1, Len(ds) - 1)) + DigitVal(ds[Len(ds)])

\* A decimal literal: no letter right after it, and no leading zero unless
\* it is all zeros.
NumberToken(ds, rest) ==
    IF \/ (rest # <<>> /\ IsLetter(Head(rest)))
       \/ (Len(ds) > 1 /\ Head(ds) = "0" /\ DigitsVal(ds) # 0)
    THEN Token("err", 0, ds)
    ELSE Token("num", DigitsVal(ds), ds)

WordToken(w) == Token(IF w \in Keywords THEN "op" ELSE "name", 0, w)

RECURSIVE Lex(_)
Lex(s) ==
    IF s = <<>> THEN <<>>
    ELSE LET c == Head(s)
             rest(k) == SubSeq(s, k + 1, Len(s))
         IN  IF c = " " THEN Lex(Tail(s))
             ELSE IF IsDigit(c)
             THEN LET k == DigitRun(s)
                  IN  <<NumberToken(SubSeq(s, 1, k), rest(k))>> \o Lex(rest(k))
             ELSE IF IsLetter(c)
             THEN LET k == WordRun(s)
                  IN  <<WordToken(SubSeq(s, 1, k))>> \o Lex(rest(k))
             ELSE IF Len(s) >= 2 /\ SubSeq(s, 1, 2) \in TwoCharOps
             THEN <<Token("op", 0, SubSeq(s, 1, 2))>> \o Lex(rest(2))
             ELSE IF c \in OneCharOps
             THEN <<Token("op", 0, <<c>>)>> \o Lex(Tail(s))
             ELSE <<Token("err", 0, <<c>>)>> \o Lex(Tail(s))

\* Python values: k is the type ("exc": the evaluation raised e), n the
\* number of an int or a bool, m the elements of a set.
IntV(n) == [k |-> "int", n |-> n, e |-> "", m |-> {}]
BoolV(b) == [k |-> "bool", n |-> IF b THEN 1 ELSE 0, e |-> "", m |-> {}]
SetV(m) == [k |-> "set", n |-> 0, e |-> "", m |-> m]
DictV == [k |-> "dict", n |-> 0, e |-> "", m |-> {}]
FuncV == [k |-> "func", n |-> 0, e |-> "", m |-> {}]
Exc(e) == [k |-> "exc", n |-> 0, e |-> e, m |-> {}]

IsNum(v) == v.k \in {"int", "bool"}

\* bool(v)
Truthy(v) ==
    CASE IsNum(v) -> v.n # 0
      [] v.k = "set" -> v.m # {}
      [] v.k = "func" -> TRUE
      [] OTHER -> FALSE

\* a name where eval() runs
Lookup(name) == IF name = <<"o", "r", "d">> THEN FuncV ELSE Exc("NameError")

\* {v}
SetDisplay(v) ==
    CASE v.k = "exc" -> v
      [] IsNum(v) -> SetV({[c |-> "num", n |-> v.n]})
      [] v.k = "func" -> SetV({[c |-> "func", n |-> 0]})
      [] OTHER -> Exc("TypeError")

\* +v, -v
Unary(op, v) ==
    CASE v.k = "exc" -> v
      [] IsNum(v) -> IntV(IF op = <<"-">> THEN 0 - v.n ELSE v.n)
      [] OTHER -> Exc("TypeError")

\* l + r, l - r, both evaluated
Arith(l, op, r) ==
    CASE l.k = "exc" -> l
      [] r.k = "exc" -> r
      [] IsNum(l) /\ IsNum(r) ->
            IntV(IF op = <<"-">> THEN l.n - r.n ELSE l.n + r.n)
      [] l.k = "set" /\ r.k = "set" /\ op = <<"-">> -> SetV(l.m \ r.m)
      [] OTHER -> Exc("TypeError")

CmpOps == {<<">">>, <<"<">>, <<"=", "=">>, <<"!", "=">>, <<">", "=">>, <<"<", "=">>}

\* l op r of two values
Compare(l, op, r) ==
    LET eq == CASE IsNum(l) /\ IsNum(r) -> l.n = r.n
                [] l.k = "set" /\ r.k = "set" -> l.m = r.m
                [] OTHER -> l.k = r.k
    IN  CASE op = <<"=", "=">> -> BoolV(eq)
          [] op = <<"!", "=">> -> BoolV(~eq)
          [] IsNum(l) /\ IsNum(r) ->
                BoolV(CASE op = <<">">> -> l.n > r.n
                        [] op = <<"<">> -> l.n < r.n
                        [] op = <<">", "=">> -> l.n >= r.n
                        [] OTHER -> l.n <= r.n)
          [] l.k = "set" /\ r.k = "set" ->
                BoolV(CASE op = <<">">> -> r.m \subseteq l.m /\ l.m # r.m
                        [] op = <<"<">> -> l.m \subseteq r.m /\ l.m # r.m
                        [] op = <<">", "=">> -> r.m \subseteq l.m
                        [] OTHER -> l.m \subseteq r.m)
          [] OTHER -> Exc("TypeError")

\* One link of a comparison chain a op b op c ...: res is the chain's value
\* so far, l the evaluated left operand, r the right one.  After the first
\* link a false value ends the chain before r is evaluated.
ChainStep(first, res, l, op, r) ==
    IF first
    THEN CASE l.k = "exc" -> l
           [] r.k = "exc" -> r
           [] OTHER -> Compare(l, op, r)
    ELSE CASE res.k = "exc" -> res
           [] ~Truthy(res) -> res
           [] r.k = "exc" -> r
           [] OTHER -> Compare(l, op, r)

\* a or b, a and b: b counts only when a lets it be evaluated
OrV(a, b) == IF a.k = "exc" \/ Truthy(a) THEN a ELSE b
AndV(a, b) == IF a.k = "exc" \/ ~Truthy(a) THEN a ELSE b

Parsed(pos, v) == [ok |-> TRUE, pos |-> pos, v |-> v]
SyntaxFail == [ok |-> FALSE, pos |-> 0, v |-> IntV(0)]

IsOp(ts, p, os) == p <= Len(ts) /\ ts[p].t = "op" /\ ts[p].s \in os

\* The parser is one operator, rule naming the grammar rule it reads from
\* token p on: or, and, cmp (a comparison chain), arith (a sum), factor (a
\* signed atom), atom, and or_rest, and_rest, cmp_rest, arith_rest for what
\* follows a first operand.  acc carries that operand (l), and for a chain
\* its value so far (res) and whether no link was read yet (first).
NoAcc == [first |-> TRUE, res |-> IntV(0), l |-> IntV(0)]

Operand(v) == [first |-> TRUE, res |-> v, l |-> v]

RECURSIVE Parse(_, _, _, _)
Parse(rule, ts, p, acc) ==
    CASE rule = "atom" ->
            IF p > Len(ts) THEN SyntaxFail
            ELSE IF ts[p].t = "num" THEN Parsed(p + 1, IntV(ts[p].n))
            ELSE IF ts[p].t = "name" THEN Parsed(p + 1, Lookup(ts[p].s))
            ELSE IF IsOp(ts, p, {<<"{">>})
            THEN IF IsOp(ts, p + 1, {<<"}">>}) THEN Parsed(p + 2, DictV)
                 ELSE LET inner == Parse("or", ts, p + 1, NoAcc)
                      IN  IF inner.ok /\ IsOp(ts, inner.pos, {<<"}">>})
                          THEN Parsed(inner.pos + 1, SetDisplay(inner.v))
                          ELSE SyntaxFail
            ELSE SyntaxFail
      [] rule = "factor" ->
            IF IsOp(ts, p, {<<"+">>, <<"-">>})
            THEN LET f == Parse("factor", ts, p + 1, NoAcc)
                 IN  IF f.ok THEN Parsed(f.pos, Unary(ts[p].s, f.v))
                     ELSE SyntaxFail
            ELSE Parse("atom", ts, p, NoAcc)
      [] rule = "arith_rest" ->
            IF IsOp(ts, p, {<<"+">>, <<"-">>})
            THEN LET r == Parse("factor", ts, p + 1, NoAcc)
                 IN  IF r.ok
                     THEN Parse("arith_rest", ts, r.pos,
                                Operand(Arith(acc.l, ts[p].s, r.v)))
                     ELSE SyntaxFail
            ELSE Parsed(p, acc.l)
      [] rule = "cmp_rest" ->
            IF IsOp(ts, p, CmpOps)
            THEN LET r == Parse("arith", ts, p + 1, NoAcc)
                 IN  IF r.ok
                     THEN Parse("cmp_rest", ts, r.pos,
                                [first |-> FALSE,
                                 res |-> ChainStep(acc.first, acc.res, acc.l,
                                                   ts[p].s, r.v),
                                 l |-> r.v])
                     ELSE SyntaxFail
            ELSE Parsed(p, acc.res)
      [] rule = "and_rest" ->
            IF IsOp(ts, p, {<<"a", "n", "d">>})
            THEN LET r == Parse("cmp", ts, p + 1, NoAcc)
                 IN  IF r.ok
                     THEN Parse("and_rest", ts, r.pos, Operand(AndV(acc.l, r.v)))
                     ELSE SyntaxFail
            ELSE Parsed(p, acc.l)
      [] rule = "or_rest" ->
            IF IsOp(ts, p, {<<"o", "r">>})
            THEN LET r == Parse("and", ts, p + 1, NoAcc)
                 IN  IF r.ok
                     THEN Parse("or_rest", ts, r.pos, Operand(OrV(acc.l, r.v)))
                     ELSE SyntaxFail
            ELSE Parsed(p, acc.l)
      [] OTHER ->
            \* arith, cmp, and, or: a first operand of the rule below, then
            \* the rest
            LET below == CASE rule = "arith" -> "factor"
                           [] rule = "cmp" -> "arith"
                           [] rule = "and" -> "cmp"
                           [] OTHER -> "and"
                rest == CASE rule = "arith" -> "arith_rest"
                          [] rule = "cmp" -> "cmp_rest"
                          [] rule = "and" -> "and_rest"
                          [] OTHER -> "or_rest"
                a == Parse(below, ts, p, NoAcc)
            IN  IF a.ok THEN Parse(rest, ts, a.pos, Operand(a.v))
                ELSE SyntaxFail

\* eval(s): the value, or the exception raised
Eval(s) ==
    LET ts == Lex(s)
        r == Parse("or", ts, 1, NoAcc)
    IN  IF ts = <<>> \/ \E i \in 1..Len(ts) : ts[i].t = "err"
        THEN Exc("SyntaxError")
        ELSE IF r.ok /\ r.pos = Len(ts) + 1 THEN r.v ELSE Exc("SyntaxError")

\* evaluate_condition: whatever eval() returns, and False when it raises
evaluate_condition(condition, context) ==
    LET v == Eval(Substitute(condition, context))
    IN  IF v.k = "exc" THEN BoolV(FALSE) ELSE v

(***************************************************************************)
(* Bounds and inputs.                                                      *)
(***************************************************************************)
\* the clock stops after MaxNow ticks
MaxNow == 2

\* no call is made once execution_log holds MaxLog rows
MaxLog == 2

\* the integers a context gives x are -1 .. MaxX
MaxX == 12

\* the histories given to detect_workflow_patterns have at most MaxHistory
\* actions
MaxHistory == 3

\* datetime.now() has a finer grain than the %S of the workflow id and than
\* CURRENT_TIMESTAMP: the ticks in one second
TicksPerSecond == 2

\* strftime('%Y%m%d_%H%M%S') and CURRENT_TIMESTAMP: the time cut to whole
\* seconds
Seconds(t) == t \div TicksPerSecond

WorkflowIds == 0..Seconds(MaxNow)

CondXGreater10 == <<"{", "x", "}", " ", ">", " ", "1", "0">>
CondSum == <<"1", " ", "+", " ", "1">>
CondSumGreater10 == <<"5", "+", "6", " ", ">", " ", "1", "0">>
CondXAndY ==
    CondXGreater10 \o <<" ", "a", "n", "d", " ", "{", "y", "}", " ", "<", " ", "3">>
CondName == <<"a", "b", "c">>
CondOrName == <<"1", " ", "o", "r", " ", "a", "b", "c">>
CondX == <<"{", "x", "}">>
CondChain == <<"1", "0", " ", ">", " ", "5", " ", ">", " ", "1">>
CondHalf == <<"{", "x", "}", " ", ">">>
CondEmpty == <<>>

Conditions ==
    {CondXGreater10, CondSum, CondSumGreater10, CondXAndY, CondName,
     CondOrName, CondX, CondChain, CondHalf, CondEmpty}

XStrings ==
    {<<"1", "1">>, <<"5">>, <<"a", "b", "c">>, <<"5", "+", "6">>,
     <<" ", "1", "1">>, <<"1", " ", "1">>, <<>>, <<"{", "y", "}">>}

XValues == {IntVal(n) : n \in -1..MaxX} \cup {StrVal(s) : s \in XStrings}

Contexts ==
    {<<>>} \cup {<< <<<<"x">>, v>> >> : v \in XValues}
           \cup {<< <<<<"x">>, v>>, <<<<"y">>, IntVal(2)>> >> : v \in XValues}
           \cup {<< <<<<"y">>, IntVal(11)>>, <<<<"x">>, StrVal(<<"{", "y", "}">>)>> >>,
                 << <<<<"x">>, StrVal(<<"{", "y", "}">>)>>, <<<<"y">>, IntVal(11)>> >>}

(***************************************************************************)
(* Automation, and the calls execute_automation makes.                     *)
(***************************************************************************)
Automation(id, workflow_id, condition, action, parameters, is_enabled) ==
    [id |-> id, workflow_id |-> workflow_id, condition |-> condition,
     action |-> action, parameters |-> parameters, is_enabled |-> is_enabled]

\* An id that is not a str (a list): sqlite3 cannot bind it.
UnbindableId == "['a1']"

SuccessMessage == "Automation executed successfully"
AttributeErrorMessage == "'NoneType' object has no attribute 'get'"
BindErrorMessage == "Error binding parameter 2: type 'list' is not supported"

KnownActions ==
    {"send_email", "create_calendar_event", "send_slack_message", "update_crm"}

\* execute_action: the handler it calls, if any, and the exception that the
\* handler's parameters.get raises when parameters is None
execute_action(action, parameters) ==
    IF action \in KnownActions
    THEN [invoked |-> action,
          raised |-> IF parameters = "None" THEN "AttributeError" ELSE "none",
          message |-> IF parameters = "None" THEN AttributeErrorMessage ELSE ""]
    ELSE [invoked |-> "none", raised |-> "none", message |-> ""]

\* log_execution as an INSERT OR REPLACE keyed by workflow and automation: a
\* row of the same two is overwritten where it stands
log_execution_upsert(log, t, workflow_id, automation_id, status, message) ==
    LET row == [id |-> Len(log) + 1, workflow_id |-> workflow_id,
                automation_id |-> automation_id, status |-> status,
                message |-> message, executed_at |-> Seconds(t)]
        same == {i \in 1..Len(log) :
                    /\ log[i].workflow_id = workflow_id
                    /\ log[i].automation_id = automation_id}
    IN  IF automation_id = UnbindableId
        THEN [log |-> log, raised |-> "ProgrammingError",
              message |-> BindErrorMessage]
        ELSE IF same # {}
        THEN [log |-> [i \in 1..Len(log) |->
                          IF i \in same THEN [row EXCEPT !.id = i] ELSE log[i]],
              raised |-> "none", message |-> ""]
        ELSE [log |-> Append(log, row), raised |-> "none", message |-> ""]

\* log_execution at time t: one INSERT into execution_log, whose id is the
\* next rowid and whose executed_at is CURRENT_TIMESTAMP, or the exception of
\* a parameter that cannot be bound
log_execution(log, t, workflow_id, automation_id, status, message) ==
    IF automation_id = UnbindableId
    THEN [log |-> log, raised |-> "ProgrammingError", message |-> BindErrorMessage]
    ELSE [log |-> Append(log, [id |-> Len(log) + 1,
                               workflow_id |-> workflow_id,
                               automation_id |-> automation_id,
                               status |-> status,
                               message |-> message,
                               executed_at |-> Seconds(t)]),
          raised |-> "none", message |-> ""]

\* the contexts execute_automation is given: x absent, x over 10, x under 10
RunContexts ==
    {<<>>, << <<<<"x">>, IntVal(11)>> >>, << <<<<"x">>, IntVal(5)>> >>}

\* the conditions of the automations it is given
RunConditions == {CondXGreater10}

\* whether the try of evaluate_condition caught an exception
ConditionRaises(condition, context) ==
    Eval(Substitute(condition, context)).k = "exc"

\* self.evaluate_condition(automation.condition, context), computed once for
\* each condition and context
ConditionOutcome ==
    [c \in RunConditions, x \in RunContexts |->
        [value |-> evaluate_condition(c, x), raised |-> ConditionRaises(c, x)]]

\* execute_automation logging a skipped row when the condition is false
execute_automation_logging_skips(automation, context, log, t) ==
    LET held == Truthy(ConditionOutcome[automation.condition, context].value)
        act == execute_action(automation.action, automation.parameters)
        ok == log_execution(log, t, automation.workflow_id, automation.id,
                            "success", SuccessMessage)
        e == IF act.raised # "none" THEN act ELSE ok
        err == log_execution(log, t, automation.workflow_id, automation.id,
                             "error", e.message)
        skip == log_execution(log, t, automation.workflow_id, automation.id,
                              "skipped", "Condition not met")
    IN  IF ~held
        THEN [log |-> skip.log, returned |-> FALSE, raised |-> skip.raised,
              invoked |-> "none"]
        ELSE IF e.raised = "none"
        THEN [log |-> ok.log, returned |-> TRUE, raised |-> "none",
              invoked |-> act.invoked]
        ELSE [log |-> err.log, returned |-> FALSE, raised |-> err.raised,
              invoked |-> act.invoked]

\* execute_automation at time t: the log after it, what it returned or
\* raised, and the handler it invoked
execute_automation(automation, context, log, t) ==
    LET held == Truthy(ConditionOutcome[automation.condition, context].value)
        act == execute_action(automation.action, automation.parameters)
        ok == log_execution(log, t, automation.workflow_id, automation.id,
                            "success", SuccessMessage)
        e == IF act.raised # "none" THEN act ELSE ok
        err == log_execution(log, t, automation.workflow_id, automation.id,
                             "error", e.message)
    IN  IF ~held
        THEN [log |-> log, returned |-> FALSE, raised |-> "none",
              invoked |-> "none"]
        ELSE IF e.raised = "none"
        THEN [log |-> ok.log, returned |-> TRUE, raised |-> "none",
              invoked |-> act.invoked]
        ELSE [log |-> err.log, returned |-> FALSE, raised |-> err.raised,
              invoked |-> act.invoked]

(***************************************************************************)
(* get_workflow_analytics.                                                 *)
(***************************************************************************)
RecentLimit == 10

\* the rows WHERE workflow_id = ?
RowsOf(log, workflow_id) ==
    {i \in 1..Len(log) : log[i].workflow_id = workflow_id}

\* SELECT status, COUNT(*) ... GROUP BY status, as dict() keeps it
Statistics(log, workflow_id) ==
    {<<s, Cardinality({i \in RowsOf(log, workflow_id) : log[i].status = s})>> :
        s \in {log[i].status : i \in RowsOf(log, workflow_id)}}

\* stats.get(key, 0)
StatsGet(stats, key) ==
    IF \E p \in stats : p[1] = key
    THEN (CHOOSE p \in stats : p[1] = key)[2] ELSE 0

\* sum(stats.values())
RECURSIVE StatsSum(_)
StatsSum(stats) ==
    IF stats = {} THEN 0
    ELSE LET p == CHOOSE q \in stats : TRUE
         IN  p[2] + StatsSum(stats \ {p})

Max(a, b) == IF a >= b THEN a ELSE b
Min(a, b) == IF a <= b THEN a ELSE b

\* the division without the max(..., 1) that guards it
SuccessRateUnguarded(stats) ==
    [num |-> StatsGet(stats, "success"), den |-> StatsSum(stats)]

\* stats.get("success", 0) / max(sum(stats.values()), 1), as the fraction
\* the float division is made of
SuccessRate(stats) ==
    [num |-> StatsGet(stats, "success"), den |-> Max(StatsSum(stats), 1)]

\* ORDER BY executed_at DESC: the orders SQL allows, rows of one second in
\* any order
RecentOrders(log, workflow_id) ==
    LET rows == RowsOf(log, workflow_id)
        n == Cardinality(rows)
    IN  {o \in [1..n -> rows] :
            /\ \A i, j \in 1..n : i # j => o[i] # o[j]
            /\ \A i, j \in 1..n :
                  i < j => log[o[i]].executed_at >= log[o[j]].executed_at}

\* LIMIT 10 of the columns status, message, executed_at
Recent(log, o) ==
    [k \in 1..Min(Len(o), RecentLimit) |->
        <<log[o[k]].status, log[o[k]].message, log[o[k]].executed_at>>]

(***************************************************************************)
(* detect_workflow_patterns.                                               *)
(***************************************************************************)
Pattern(action) ==
    [type |-> "repetitive_action", app |-> action.app, action |-> action.action,
     frequency |-> 2, confidence |-> <<7, 10>>]

\* the loop over enumerate(user_actions), from index i (1-based) on
RECURSIVE DetectFrom(_, _)
DetectFrom(user_actions, i) ==
    IF i > Len(user_actions) THEN <<>>
    ELSE (IF /\ i - 1 < Len(user_actions) - 1
             /\ user_actions[i].type = user_actions[i + 1].type
             /\ user_actions[i].app = user_actions[i + 1].app
          THEN <<Pattern(user_actions[i])>> ELSE <<>>)
         \o DetectFrom(user_actions, i + 1)

\* the scan comparing the type alone
RECURSIVE DetectByTypeFrom(_, _)
DetectByTypeFrom(user_actions, i) ==
    IF i > Len(user_actions) THEN <<>>
    ELSE (IF /\ i - 1 < Len(user_actions) - 1
             /\ user_actions[i].type = user_actions[i + 1].type
          THEN <<Pattern(user_actions[i])>> ELSE <<>>)
         \o DetectByTypeFrom(user_actions, i + 1)

detect_by_type_only(user_actions) == DetectByTypeFrom(user_actions, 1)

detect_workflow_patterns(user_actions) == DetectFrom(user_actions, 1)

(***************************************************************************)
(* The calls.                                                              *)
(***************************************************************************)
Names == {"Email Follow-up Automation"}

Descriptions == {"Automatically follow up on emails after 3 days"}

\* every automation execute_automation is given: either id, either
\* workflow, the four known actions and one that is not, parameters a dict
\* or None, enabled or not
Automations ==
    {Automation(id, w, CondXGreater10, action, parameters, enabled) :
        id \in {"a1", UnbindableId}, w \in WorkflowIds,
        action \in KnownActions \cup {"archive"},
        parameters \in {"dict", "None"}, enabled \in BOOLEAN}

\* the automations run beside the other calls
CoreAutomations ==
    {a \in Automations :
        a.id = "a1" /\ a.is_enabled /\ a.action \in {"send_email", "archive"}}

NoAutomation == Automation("", -1, <<>>, "", "None", FALSE)

\* the record of a call: what it was given, what came back
Call(op) ==
    [op |-> op, automation |-> NoAutomation, workflow_id |-> -1,
     returned |-> FALSE, raised |-> "none", invoked |-> "none",
     cond_held |-> FALSE, cond_error |-> FALSE, appended |-> 0,
     statistics |-> {}, recent |-> <<>>,
     success_rate |-> [num |-> 0, den |-> 1]]

NoCondCall ==
    [condition |-> <<>>, context |-> <<>>, called |-> FALSE,
     result |-> BoolV(FALSE)]

NoDetectCall == [user_actions |-> <<>>, called |-> FALSE, patterns |-> <<>>]

\* BusinessFlowAI(): no workflow, and the tables init_database creates, empty
Init ==
    /\ now = 0
    /\ workflows = {}
    /\ wf_table = {}
    /\ execution_log = <<>>
    /\ ret = Call("__init__")
    /\ cond_io = NoCondCall
    /\ detect_io = NoDetectCall

Tick ==
    /\ now < MaxNow
    /\ now' = now + 1
    /\ UNCHANGED <<workflows, wf_table, execution_log, ret, cond_io, detect_io>>

\* the id create_workflow makes at time t
NewWorkflowId(t) == Seconds(t)

\* create_workflow: the INSERT fails on a primary key the table holds, and
\* then nothing is stored
\* (triggers and actions are the empty list, which json.dumps writes "[]";
\* last_triggered stays None)
CreateWorkflow(name, description) ==
    LET workflow_id == NewWorkflowId(now)
        workflow == [id |-> workflow_id, name |-> name,
                     description |-> description, triggers |-> <<>>,
                     actions |-> <<>>, is_active |-> TRUE, created_at |-> now,
                     last_triggered |-> "None"]
        row == [id |-> workflow_id, name |-> name, description |-> description,
                triggers |-> <<"[", "]">>, actions |-> <<"[", "]">>,
                is_active |-> 1, created_at |-> Seconds(now),
                last_triggered |-> "NULL"]
    IN  /\ IF \E r \in wf_table : r.id = workflow_id
           THEN /\ ret' = [Call("create_workflow") EXCEPT
                              !.workflow_id = workflow_id,
                              !.raised = "IntegrityError"]
                /\ UNCHANGED <<workflows, wf_table>>
           ELSE /\ wf_table' = wf_table \cup {row}
                /\ workflows' =
                      {w \in workflows : w.id # workflow_id} \cup {workflow}
                /\ ret' = [Call("create_workflow") EXCEPT
                              !.workflow_id = workflow_id, !.returned = TRUE]
        /\ UNCHANGED <<now, execution_log, cond_io, detect_io>>

ExecuteAutomation(automation, context) ==
    LET out == execute_automation(automation, context, execution_log, now)
    IN  /\ Len(execution_log) < MaxLog
        /\ execution_log' = out.log
        /\ ret' = [Call("execute_automation") EXCEPT
                      !.automation = automation,
                      !.workflow_id = automation.workflow_id,
                      !.returned = out.returned,
                      !.raised = out.raised,
                      !.invoked = out.invoked,
                      !.cond_held =
                          Truthy(ConditionOutcome[automation.condition, context].value),
                      !.cond_error =
                          ConditionOutcome[automation.condition, context].raised,
                      !.appended = Len(out.log) - Len(execution_log)]
        /\ UNCHANGED <<now, workflows, wf_table, cond_io, detect_io>>

LogExecution(workflow_id, automation_id, status, message) ==
    LET out == log_execution(execution_log, now, workflow_id, automation_id,
                             status, message)
    IN  /\ Len(execution_log) < MaxLog
        /\ execution_log' = out.log
        /\ ret' = [Call("log_execution") EXCEPT
                      !.workflow_id = workflow_id,
                      !.raised = out.raised,
                      !.appended = Len(out.log) - Len(execution_log)]
        /\ UNCHANGED <<now, workflows, wf_table, cond_io, detect_io>>

GetWorkflowAnalytics(workflow_id) ==
    LET stats == Statistics(execution_log, workflow_id)
    IN  /\ \E o \in RecentOrders(execution_log, workflow_id) :
              ret' = [Call("get_workflow_analytics") EXCEPT
                         !.workflow_id = workflow_id,
                         !.returned = TRUE,
                         !.statistics = stats,
                         !.recent = Recent(execution_log, o),
                         !.success_rate = SuccessRate(stats)]
        /\ UNCHANGED <<now, workflows, wf_table, execution_log, cond_io, detect_io>>

Next ==
    \/ Tick
    \/ \E name \in Names, description \in Descriptions :
          CreateWorkflow(name, description)
    \/ \E a \in CoreAutomations, c \in RunContexts : ExecuteAutomation(a, c)
    \/ \E w \in WorkflowIds : LogExecution(w, "a1", "skipped", "condition false")
    \/ \E w \in WorkflowIds : GetWorkflowAnalytics(w)

Spec == Init /\ [][Next]_vars

\* execute_automation alone, over every automation
NextRun == \E a \in Automations, c \in RunContexts : ExecuteAutomation(a, c)

SpecRun == Init /\ [][NextRun]_vars

\* evaluate_condition alone, over the conditions and the contexts
InitCond ==
    /\ now = 0
    /\ workflows = {}
    /\ wf_table = {}
    /\ execution_log = <<>>
    /\ ret = Call("__init__")
    /\ cond_io \in {[NoCondCall EXCEPT !.condition = c, !.context = x] :
                       c \in Conditions, x \in Contexts}
    /\ detect_io = NoDetectCall

EvaluateCondition ==
    /\ ~cond_io.called
    /\ cond_io' = [cond_io EXCEPT
                      !.called = TRUE,
                      !.result = evaluate_condition(cond_io.condition,
                                                    cond_io.context)]
    /\ UNCHANGED <<now, workflows, wf_table, execution_log, ret, detect_io>>

NextCond == EvaluateCondition

SpecCond == InitCond /\ [][NextCond]_vars

\* detect_workflow_patterns alone, over the histories; a key an action
\* lacks reads None
ActionTypes == {"email", "calendar", "None"}
ActionApps == {"gmail", "google", "None"}
ActionNames == {"send", "create_event"}

UserActions ==
    {[type |-> ty, app |-> ap, action |-> ac] :
        ty \in ActionTypes, ap \in ActionApps, ac \in ActionNames}

RECURSIVE SeqsUpTo(_, _)
SeqsUpTo(S, n) ==
    IF n = 0 THEN {<<>>}
    ELSE SeqsUpTo(S, n - 1) \cup
         {Append(h, a) : h \in {g \in SeqsUpTo(S, n - 1) : Len(g) = n - 1}, a \in S}

InitDetect ==
    /\ now = 0
    /\ workflows = {}
    /\ wf_table = {}
    /\ execution_log = <<>>
    /\ ret = Call("__init__")
    /\ cond_io = NoCondCall
    /\ detect_io \in {[NoDetectCall EXCEPT !.user_actions = h] :
                         h \in SeqsUpTo(UserActions, MaxHistory)}

DetectWorkflowPatterns ==
    /\ ~detect_io.called
    /\ detect_io' = [detect_io EXCEPT
                        !.called = TRUE,
                        !.patterns = detect_workflow_patterns(detect_io.user_actions)]
    /\ UNCHANGED <<now, workflows, wf_table, execution_log, ret, cond_io>>

NextDetect == DetectWorkflowPatterns

SpecDetect == InitDetect /\ [][NextDetect]_vars

(***************************************************************************)
(* The properties.                                                         *)
(***************************************************************************)
\* the row the last call appended
LastRow == execution_log[Len(execution_log)]

Executed == ret.op = "execute_automation"

\* C1: a disabled automation is never evaluated or dispatched: whatever the
\* context, execute_automation on an automation with is_enabled = false
\* invokes no action handler, returns no success and logs none.  (Stated
\* for an automation whose id is a str.)
C1_DisabledNeverDispatched ==
    (Executed /\ ~ret.automation.is_enabled
              /\ ret.automation.id # UnbindableId) =>
        /\ ret.invoked = "none"
        /\ ~ret.returned
        /\ ~(ret.appended > 0 /\ LastRow.status = "success")

\* C2: an action name that is not a known action is reported as a failure:
\* when the condition holds, execute_automation does not raise, the row it
\* appends has status error and it does not return True.  (Stated for an
\* enabled automation whose id is a str.)
C2_UnknownActionIsError ==
    (/\ Executed
     /\ ret.automation.is_enabled
     /\ ret.cond_held
     /\ ret.automation.action \notin KnownActions
     /\ ret.automation.id # UnbindableId) =>
        /\ ret.raised = "none"
        /\ ret.appended = 1
        /\ LastRow.status = "error"
        /\ ~ret.returned

C6_FailuresBecomeRecords ==
    (Executed /\ ret.automation.is_enabled) =>
        /\ ret.raised = "none"
        /\ (\/ ret.cond_error
            \/ ret.cond_held /\ ret.automation.action \in KnownActions
                             /\ ret.automation.parameters = "None"
            \/ ret.cond_held /\ ret.automation.id = UnbindableId) =>
              /\ ret.appended >= 1
              /\ LastRow.status = "error"
              /\ LastRow.automation_id = ret.automation.id

C8_WorkflowIdsUnique ==
    [][(ret'.op = "create_workflow" /\ ret' # ret) =>
          \A r \in wf_table : r.id # ret'.workflow_id]_vars

\* C9: get_workflow_analytics returns success_rate = (success rows) /
\* (rows) of the workflow, between 0 and 1, and exactly 0, with no error,
\* when the workflow has no row.
C9_SuccessRate ==
    ret.op = "get_workflow_analytics" =>
        LET rows == {i \in 1..Len(execution_log) :
                        execution_log[i].workflow_id = ret.workflow_id}
            total == Cardinality(rows)
            success == Cardinality({i \in rows :
                                       execution_log[i].status = "success"})
            rate == ret.success_rate
        IN  /\ ret.raised = "none"
            /\ rate.den > 0
            /\ 0 <= rate.num /\ rate.num <= rate.den
            /\ total = 0 => rate.num = 0
            /\ total > 0 => rate.num * total = success * rate.den

\* C9's case: the analytics of a workflow with one success among two rows.
C9_Witness ==
    /\ ret.op = "get_workflow_analytics"
    /\ ret.success_rate = [num |-> 1, den |-> 2]

\* the history of main()
MainHistory ==
    <<[type |-> "email", app |-> "gmail", action |-> "send"],
      [type |-> "email", app |-> "gmail", action |-> "send"],
      [type |-> "calendar", app |-> "google", action |-> "create_event"]>>

\* C10: detect_workflow_patterns returns, in increasing order of i, exactly
\* one candidate for each i at which history[i] and history[i+1] have the
\* same type and app: repetitive_action, the app and action of history[i],
\* frequency 2, confidence 0.7.  A history of fewer than two actions yields
\* none, the history of main() yields one.
C10_DetectAdjacentPairs ==
    detect_io.called =>
        LET h == detect_io.user_actions
            ps == detect_io.patterns
            M == {i \in 1..(Len(h) - 1) :
                     h[i].type = h[i + 1].type /\ h[i].app = h[i + 1].app}
        IN  /\ Len(ps) = Cardinality(M)
            /\ \A k \in 1..Len(ps) :
                  \E i \in M :
                      /\ Cardinality({j \in M : j < i}) = k - 1
                      /\ ps[k] = [type |-> "repetitive_action",
                                  app |-> h[i].app, action |-> h[i].action,
                                  frequency |-> 2, confidence |-> <<7, 10>>]
            /\ Len(h) <= 1 => ps = <<>>
            /\ h = MainHistory =>
                  ps = <<[type |-> "repetitive_action", app |-> "gmail",
                          action |-> "send", frequency |-> 2,
                          confidence |-> <<7, 10>>]>>

\* C10's case: the history of main() was scanned and gave one candidate.
C10_Witness ==
    /\ detect_io.called
    /\ detect_io.user_actions = MainHistory
    /\ Len(detect_io.patterns) = 1

\* context[key], if the context has the key
HasKey(context, key) == \E i \in 1..Len(context) : context[i][1] = key

ValueOf(context, key) ==
    context[CHOOSE i \in 1..Len(context) : context[i][1] = key][2]

RECURSIVE StripLeft(_)
StripLeft(s) == IF s # <<>> /\ Head(s) = " " THEN StripLeft(Tail(s)) ELSE s

RECURSIVE StripRight(_)
StripRight(s) ==
    IF s # <<>> /\ s[Len(s)] = " " THEN StripRight(SubSeq(s, 1, Len(s) - 1))
    ELSE s

\* the digits of a string that reads as a number: blanks around it and one
\* sign before it set aside
Unsigned(s) ==
    LET u == StripRight(StripLeft(s))
    IN  IF u # <<>> /\ Head(u) \in {"+", "-"} THEN Tail(u) ELSE u

Coercible(s) ==
    Unsigned(s) # <<>> /\ \A i \in 1..Len(Unsigned(s)) : IsDigit(Unsigned(s)[i])

NumberOf(s) ==
    IF Head(StripLeft(s)) = "-" THEN 0 - DigitsVal(Unsigned(s))
    ELSE DigitsVal(Unsigned(s))

\* x is a number over 10, or a string that reads as one
XOver10(context) ==
    /\ HasKey(context, <<"x">>)
    /\ LET v == ValueOf(context, <<"x">>)
       IN  IF v.k = "int" THEN v.n > 10
           ELSE Coercible(v.s) /\ NumberOf(v.s) > 10

\* C4: on the condition "{x} > 10", evaluate_condition returns true if and
\* only if x is a number, or a string that coerces to a number, over 10, and
\* returns False otherwise (x absent, or a string that is no number).
C4_XGreaterThanTen ==
    (cond_io.called /\ cond_io.condition = CondXGreater10) =>
        /\ Truthy(cond_io.result) <=> XOver10(cond_io.context)
        /\ ~XOver10(cond_io.context) => cond_io.result = BoolV(FALSE)

\* The restricted grammar: comparisons, joined by and / or, of operands that
\* are number literals or {identifier} references.
OperandEnd(ts, p) ==
    IF p <= Len(ts) /\ ts[p].t = "num" THEN p + 1
    ELSE IF /\ IsOp(ts, p, {<<"{">>})
            /\ p + 2 <= Len(ts)
            /\ ts[p + 1].t = "name"
            /\ IsOp(ts, p + 2, {<<"}">>})
         THEN p + 3
         ELSE 0

ComparisonEnd(ts, p) ==
    LET a == OperandEnd(ts, p)
    IN  IF a # 0 /\ IsOp(ts, a, CmpOps) THEN OperandEnd(ts, a + 1) ELSE a

RECURSIVE SentenceFrom(_, _)
SentenceFrom(ts, p) ==
    LET q == ComparisonEnd(ts, p)
    IN  IF q = 0 THEN FALSE
        ELSE IF q = Len(ts) + 1 THEN TRUE
        ELSE IF IsOp(ts, q, Keywords) THEN SentenceFrom(ts, q + 1)
        ELSE FALSE

InGrammar(condition) ==
    /\ \A i \in 1..Len(Lex(condition)) : Lex(condition)[i].t # "err"
    /\ SentenceFrom(Lex(condition), 1)

\* C5: on a condition that is not a sentence of the restricted grammar,
\* whatever the context, evaluate_condition fails and returns False.
C5_OnlyTheGrammar ==
    (cond_io.called /\ ~InGrammar(cond_io.condition)) =>
        cond_io.result = BoolV(FALSE)

====
